---- MODULE Spec2Model ----
(***************************************************************************)
(* Model of klinik.py: the case record (Kasus), the case store             *)
(* (BasisKasus) with its durable JSON file, the similarity functions       *)
(* (Similaritas) and the retrieve / reuse / retain cycle (CBR).            *)
(*                                                                         *)
(* Numbers: ages and weights are whole numbers of years / kg.  A           *)
(* similarity in [0,1] is held as a whole number of 1/Unit, a composite    *)
(* score as a whole number of 1/(10*Unit); every division that occurs is   *)
(* exact for the values used.                                              *)
(***************************************************************************)
EXTENDS Integers, Sequences, FiniteSets, TLC

VARIABLES file, kasus_list, kasus_baru, kasus_terambil, solusi, last, disk,
          semua, lain

vars == <<file, kasus_list, kasus_baru, kasus_terambil, solusi, last, disk,
          semua, lain>>

(* ----------------------------- bounds --------------------------------- *)
\* longest store on which retain is still tried
MaxStore == 2
\* largest top_k passed to retrieve
MaxK == 2

(* ----------------------- strings and numbers -------------------------- *)
Min(a, b) == IF a <= b THEN a ELSE b
Max(a, b) == IF a >= b THEN a ELSE b
Abs(a) == IF a >= 0 THEN a ELSE 0 - a

\* a JSON list element that is a number, not a string
NumElem == "<number>"
\* an empty cell of the data frame (pandas NaN)
NaN == "<NaN>"

\* str.lower() on the strings that occur
Lower(s) ==
    CASE s = "Vomiting" -> "vomiting"
      [] s = " Vomiting " -> " vomiting "
      [] s = "Diarrhea" -> "diarrhea"
      [] s = "Itchiness" -> "itchiness"
      [] s = "Hydrophobia" -> "hydrophobia"
      [] s = "Shyness or aggression" -> "shyness or aggression"
      [] s = "Coughing" -> "coughing"
      [] s = "Sneezing" -> "sneezing"
      [] s = "Lethargy" -> "lethargy"
      [] s = "Weight loss" -> "weight loss"
      [] s = "Anorexia" -> "anorexia"
      [] s = "Fever" -> "fever"
      [] s = "Hair loss" -> "hair loss"
      [] s = "Redness" -> "redness"
      [] s = "Scratching" -> "scratching"
      [] s = "Dog" -> "dog"
      [] s = "Cat" -> "cat"
      [] s = "Healthy" -> "healthy"
      [] s = "Sick" -> "sick"
      [] OTHER -> s

\* str.strip() on the strings that occur
Strip(s) ==
    CASE s = " Vomiting " -> "Vomiting"
      [] s = " vomiting " -> "vomiting"
      [] s = "  " -> ""
      [] OTHER -> s

\* str.capitalize() on the disease names
Capitalize(s) ==
    CASE s = "rabies" -> "Rabies"
      [] s = "kennel cough" -> "Kennel cough"
      [] s = "parvovirus" -> "Parvovirus"
      [] s = "feline leukemia" -> "Feline leukemia"
      [] s = "skin infection" -> "Skin infection"
      [] s = "parasites" -> "Parasites"
      [] OTHER -> s

\* the elements of a list, as set(list) builds them
ToSet(s) == {s[i] : i \in 1..Len(s)}

RECURSIVE MapLower(_)
\* [g.lower() for g in gejala]
MapLower(g) ==
    IF g = <<>> THEN <<>> ELSE <<Lower(Head(g))>> \o MapLower(Tail(g))

(* ----------------------------- Kasus ---------------------------------- *)
Kasus(id, nama, ras, umur, berat, riwayat, gejala, sol) ==
    [id_kasus |-> id, nama_hewan |-> nama, ras |-> ras, umur |-> umur,
     berat |-> berat, riwayat_medis |-> riwayat, gejala |-> gejala,
     solusi |-> sol]

Keys == {"id_kasus", "nama_hewan", "ras", "umur", "berat", "riwayat_medis",
         "gejala", "solusi"}

\* Kasus.ke_dict: the mapping written to the file, key by key
ke_dict(k) ==
    [key \in Keys |->
        CASE key = "id_kasus" -> k.id_kasus
          [] key = "nama_hewan" -> k.nama_hewan
          [] key = "ras" -> k.ras
          [] key = "umur" -> k.umur
          [] key = "berat" -> k.berat
          [] key = "riwayat_medis" -> k.riwayat_medis
          [] key = "gejala" -> k.gejala
          [] key = "solusi" -> k.solusi]

\* Kasus.dari_dict raises KeyError when a key is absent
dari_dict_ok(d) == Keys \subseteq DOMAIN d

\* dari_dict with the two numeric fields read from each other's key
dari_dict_swapped(d) ==
    Kasus(d["id_kasus"], d["nama_hewan"], d["ras"], d["berat"], d["umur"],
          d["riwayat_medis"], d["gejala"], d["solusi"])

\* Kasus.dari_dict: reads the eight keys, ignores any other
dari_dict(d) ==
    Kasus(d["id_kasus"], d["nama_hewan"], d["ras"], d["umur"], d["berat"],
          d["riwayat_medis"], d["gejala"], d["solusi"])

(* ------------------------ objects of the store ------------------------ *)
\* The query object of the running diagnosis is mutable and can be
\* referenced from the store as well as by the caller; every other Kasus
\* object is referenced by the store alone.  An element of kasus_list is
\* therefore either an object of its own (ref = 0, rec its fields) or a
\* reference to the query object (ref = 1).
NoRec == Kasus("", "", "", 0, 0, "", <<>>, "")

Own(k) == [ref |-> 0, rec |-> k]
RefBaru == [ref |-> 1, rec |-> NoRec]

\* the fields of the object an element refers to, qs being the fields of
\* the query object
Val(e, qs) == IF e.ref = 0 THEN e.rec ELSE qs

\* the fields of all elements, in order
Vals(list, qs) == [i \in 1..Len(list) |-> Val(list[i], qs)]

\* the same list once the caller has dropped the query object: the store
\* holds the only reference to each of its objects
Freeze(list, qs) == [i \in 1..Len(list) |-> Own(Val(list[i], qs))]

(* --------------------------- durable file ----------------------------- *)
\* content of basis_kasus_hewan.json: absent, text json.load rejects,
\* a JSON number (iterating it raises TypeError), or a JSON list of objects
Absent == [kind |-> "absent", data |-> <<>>]
Garbage == [kind |-> "garbage", data |-> <<>>]
NotList == [kind |-> "notlist", data |-> <<>>]
Json(data) == [kind |-> "json", data |-> data]

\* json.dump([kasus.ke_dict() for kasus in self.kasus_list], file)
Dump(list, qs) == Json([i \in 1..Len(list) |-> ke_dict(Val(list[i], qs))])

\* the three ways open(nama_file, "w") + json.dump can end
WriteOutcomes == {"ok", "open_fails", "dump_fails"}

\* simpan_file writing the records without the last one
simpan_file_prefix(w, list, qs, f) ==
    CASE w = "ok" -> Dump(SubSeq(list, 1, Len(list) - 1), qs)
      [] w = "open_fails" -> f
      [] OTHER -> Garbage

\* simpan_file adding to the records of the file those of the list the
\* file does not hold, instead of writing the list over them
simpan_file_merge(w, list, qs, f) ==
    CASE w = "ok" ->
            LET old == f.data
                new == Dump(list, qs).data
            IN Json(old \o SelectSeq(new, LAMBDA d :
                                        \A i \in 1..Len(old) : old[i] # d))
      [] w = "open_fails" -> f
      [] OTHER -> Garbage

\* BasisKasus.simpan_kasus: the file it leaves behind.  open(.., "w")
\* truncates, so a failure after it leaves partial text in the file.
simpan_file(w, list, qs, f) ==
    CASE w = "ok" -> Dump(list, qs)
      [] w = "open_fails" -> f
      [] OTHER -> Garbage

\* BasisKasus.simpan_kasus has no handler: a failed write raises
simpan_raised(w) == IF w = "ok" THEN "none" ELSE "OSError"

\* index of the first record whose gejala holds a non-string, 0 if none
FirstBad(recs) ==
    LET bad == {i \in 1..Len(recs) : NumElem \in ToSet(recs[i].gejala)}
    IN IF bad = {} THEN 0 ELSE CHOOSE i \in bad : \A j \in bad : i <= j

\* BasisKasus.muatan_kasus: the list it builds, the exception that leaves it
\* and the message it shows
muatan_kasus(f) ==
    IF f.kind = "absent" \/ f.kind = "garbage"
    THEN [list |-> <<>>, raised |-> "none", msg |-> "none"]
    ELSE IF f.kind = "notlist"
              \/ \E i \in 1..Len(f.data) : ~dari_dict_ok(f.data[i])
    THEN [list |-> <<>>, raised |-> "none", msg |-> "warning"]
    ELSE LET recs == [i \in 1..Len(f.data) |-> dari_dict(f.data[i])]
             b == FirstBad(recs)
             norm(k) == [k EXCEPT !.gejala = MapLower(k.gejala)]
         IN [list |-> [i \in 1..Len(recs) |->
                          Own(IF b = 0 \/ i < b THEN norm(recs[i])
                              ELSE recs[i])],
             raised |-> IF b = 0 THEN "none" ELSE "AttributeError",
             msg |-> "none"]

(* --------------------------- tabular import --------------------------- *)
\* a numeric cell and a cell float() rejects
Num(v) == [num |-> TRUE, v |-> v]
BadNum == [num |-> FALSE, v |-> 0]

\* the sources handed to muatan_dari_csv: no file at the path, a file
\* pd.read_csv rejects, or a data frame with its columns and rows
CsvMissing == [kind |-> "missing", cols |-> {}, rows |-> <<>>]
CsvUnreadable == [kind |-> "unreadable", cols |-> {}, rows |-> <<>>]
Df(cols, rows) == [kind |-> "df", cols |-> cols, rows |-> rows]

SymptomCols == <<"Symptom_1", "Symptom_2", "Symptom_3", "Symptom_4", "Symptom_5">>

\* peta_diagnosa, in insertion order, before its keys are lowercased
peta_diagnosa_raw ==
    << [penyakit |-> "rabies",
        gejala |-> <<"Hydrophobia", "Shyness or aggression", "drooping ears">>],
       [penyakit |-> "kennel cough",
        gejala |-> <<"Coughing", "Sneezing", "Lethargy">>],
       [penyakit |-> "parvovirus",
        gejala |-> <<"Vomiting", "Diarrhea", "Lethargy", "Weight loss">>],
       [penyakit |-> "feline leukemia",
        gejala |-> <<"Weight loss", "Anorexia", "Fever">>],
       [penyakit |-> "skin infection",
        gejala |-> <<"Itchiness", "Hair loss", "Redness">>],
       [penyakit |-> "parasites",
        gejala |-> <<"Weight loss", "Diarrhea", "Scratching">>] >>

\* peta_diagnosa after {k: [s.lower() for s in v]}
peta_diagnosa ==
    [i \in 1..Len(peta_diagnosa_raw) |->
        [penyakit |-> peta_diagnosa_raw[i].penyakit,
         gejala |-> MapLower(peta_diagnosa_raw[i].gejala)]]

FallbackLabel == "Diagnosa tidak diketahui"
TreatmentNote == " - Antibiotik + Perawatan pendukung"

\* any(sym in gejala for sym in lista_gejala)
Overlaps(lista_gejala, gejala) == ToSet(lista_gejala) \cap ToSet(gejala) # {}

\* the loop without its break: the label of the last disease that overlaps
diagnosa_last(gejala) ==
    LET hit == {i \in 1..Len(peta_diagnosa) :
                    Overlaps(peta_diagnosa[i].gejala, gejala)}
    IN IF hit = {} THEN FallbackLabel
       ELSE LET i == CHOOSE i \in hit : \A j \in hit : i >= j
            IN Capitalize(peta_diagnosa[i].penyakit) \o TreatmentNote

\* the label of the first disease, in table order, that overlaps gejala
diagnosa(gejala) ==
    LET hit == {i \in 1..Len(peta_diagnosa) :
                    Overlaps(peta_diagnosa[i].gejala, gejala)}
    IN IF hit = {} THEN FallbackLabel
       ELSE LET i == CHOOSE i \in hit : \A j \in hit : i <= j
            IN Capitalize(peta_diagnosa[i].penyakit) \o TreatmentNote

RECURSIVE row_gejala_from(_, _, _)
\* the loop over Symptom_1..Symptom_5 from column c on: a cell is taken
\* when the column exists, the cell is not NaN and is not blank
row_gejala_from(cols, row, c) ==
    IF c > Len(SymptomCols) THEN <<>>
    ELSE LET kol == SymptomCols[c]
             rest == row_gejala_from(cols, row, c + 1)
         IN IF kol \in cols /\ row[kol] # NaN /\ Strip(row[kol]) # ""
            THEN <<Lower(Strip(row[kol]))>> \o rest
            ELSE rest

\* the loop left after the first cell it has taken
row_gejala_first(cols, row) ==
    LET g == row_gejala_from(cols, row, 1)
    IN IF g = <<>> THEN <<>> ELSE <<g[1]>>

row_gejala(cols, row) == row_gejala_from(cols, row, 1)

\* the exception building the Kasus of a row raises, "none" if it is built;
\* the keyword arguments are evaluated in the order written
row_raised(cols, row) ==
    CASE "AnimalName" \notin cols -> "KeyError"
      [] "Breed" \notin cols -> "KeyError"
      [] "Age" \notin cols -> "KeyError"
      [] ~row["Age"].num -> "ValueError"
      [] "Weight_kg" \notin cols -> "KeyError"
      [] ~row["Weight_kg"].num -> "ValueError"
      [] "MedicalHistory" \notin cols -> "KeyError"
      [] OTHER -> "none"

\* id of the record at 1-based position n: f"K{n}"
KId(n) == "K" \o ToString(n)

\* the Kasus built from the row with data-frame index idx (0-based)
row_kasus(cols, row, idx) ==
    LET gejala == row_gejala(cols, row)
    IN Kasus(KId(idx + 1), row["AnimalName"], row["Breed"], row["Age"].v,
             row["Weight_kg"].v, row["MedicalHistory"], gejala,
             diagnosa(gejala))

\* 1-based number of the first row whose Kasus cannot be built, 0 if none
FirstBadRow(df) ==
    LET bad == {i \in 1..Len(df.rows) : row_raised(df.cols, df.rows[i]) # "none"}
    IN IF bad = {} THEN 0 ELSE CHOOSE i \in bad : \A j \in bad : i <= j

\* csv_list without the reset of the list: the rows are appended to old
csv_list_append(df, old) ==
    LET b == FirstBadRow(df)
        n == IF b = 0 THEN Len(df.rows) ELSE b - 1
    IN old \o [i \in 1..n |-> Own(row_kasus(df.cols, df.rows[i], i - 1))]

\* the list the row loop has built from the list old when it ends or is
\* left by an exception: self.kasus_list = [] comes first, so nothing of
\* old is kept
csv_list(df, old) ==
    LET b == FirstBadRow(df)
        n == IF b = 0 THEN Len(df.rows) ELSE b - 1
    IN <<>> \o [i \in 1..n |-> Own(row_kasus(df.cols, df.rows[i], i - 1))]

(* ---------------------------- Similaritas ----------------------------- *)
\* the value 1.0 of a similarity; divisible by every union size and every
\* max(x, y, 1) that occurs, and by 10
Unit == 3 * 4 * 5

\* the weights of attribute_similarity, in tenths
WGejala == 4
WUmur == 2
WBerat == 2
WAnimal == 1
WRiwayat == 1

\* the value 1.0 of a composite score
One == 10 * Unit

\* jaccard_similarity dividing by the size of the first set, not the union
jaccard_first(gejala1, gejala2) ==
    LET set1 == ToSet(gejala1)
        set2 == ToSet(gejala2)
        intersection == Cardinality(set1 \cap set2)
        union == Cardinality(set1)
    IN IF union # 0 THEN (Unit * intersection) \div union ELSE 0

\* Similaritas.jaccard_similarity, in 1/Unit
jaccard_similarity(gejala1, gejala2) ==
    LET set1 == ToSet(gejala1)
        set2 == ToSet(gejala2)
        intersection == Cardinality(set1 \cap set2)
        union == Cardinality(set1 \cup set2)
    IN IF union # 0 THEN (Unit * intersection) \div union ELSE 0

\* 1 - abs(x - y) / max(x, y, 1), in 1/Unit
closeness(x, y) == Unit - (Unit * Abs(x - y)) \div Max(Max(x, y), 1)

\* attribute_similarity with the symptom weight 0.5 in place of 0.4
attribute_similarity_heavy(kasus1, kasus2) ==
    LET umur_sim == closeness(kasus1.umur, kasus2.umur)
        berat_sim == closeness(kasus1.berat, kasus2.berat)
        animal_sim == IF Lower(kasus1.nama_hewan) = Lower(kasus2.nama_hewan)
                      THEN Unit ELSE (5 * Unit) \div 10
        riwayat_sim == IF Lower(kasus1.riwayat_medis) = Lower(kasus2.riwayat_medis)
                       THEN Unit ELSE (3 * Unit) \div 10
    IN (WGejala + 1) * jaccard_similarity(kasus1.gejala, kasus2.gejala)
       + WUmur * umur_sim + WBerat * berat_sim
       + WAnimal * animal_sim + WRiwayat * riwayat_sim

\* Similaritas.attribute_similarity, in 1/(10*Unit)
attribute_similarity(kasus1, kasus2) ==
    LET umur_sim == closeness(kasus1.umur, kasus2.umur)
        berat_sim == closeness(kasus1.berat, kasus2.berat)
        animal_sim == IF Lower(kasus1.nama_hewan) = Lower(kasus2.nama_hewan)
                      THEN Unit ELSE (5 * Unit) \div 10
        riwayat_sim == IF Lower(kasus1.riwayat_medis) = Lower(kasus2.riwayat_medis)
                       THEN Unit ELSE (3 * Unit) \div 10
    IN WGejala * jaccard_similarity(kasus1.gejala, kasus2.gejala)
       + WUmur * umur_sim + WBerat * berat_sim
       + WAnimal * animal_sim + WRiwayat * riwayat_sim

(* -------------------------------- CBR --------------------------------- *)
\* InsertDesc of a sort that is not stable: x goes before its equals
InsertDesc_unstable(s, x, skor) ==
    LET lower == {i \in 1..Len(s) : skor[s[i]] <= skor[x]}
    IN IF lower = {} THEN Append(s, x)
       ELSE LET p == CHOOSE i \in lower : \A j \in lower : i <= j
            IN SubSeq(s, 1, p - 1) \o <<x>> \o SubSeq(s, p, Len(s))

\* one step of list.sort(key=skor, reverse=True): position x, later in the
\* list than every position of s, goes behind all that score at least as
\* much (the sort is stable)
InsertDesc(s, x, skor) ==
    LET lower == {i \in 1..Len(s) : skor[s[i]] < skor[x]}
    IN IF lower = {} THEN Append(s, x)
       ELSE LET p == CHOOSE i \in lower : \A j \in lower : i <= j
            IN SubSeq(s, 1, p - 1) \o <<x>> \o SubSeq(s, p, Len(s))

RECURSIVE SortDesc(_, _)
\* the positions 1..n sorted by descending skor, stable
SortDesc(skor, n) ==
    IF n = 0 THEN <<>> ELSE InsertDesc(SortDesc(skor, n - 1), n, skor)

\* the Python slice s[:k]; a negative k counts from the end
Slice(s, k) ==
    IF k >= 0 THEN SubSeq(s, 1, Min(k, Len(s)))
    ELSE SubSeq(s, 1, Max(Len(s) + k, 0))

\* CBR.ambil_kasus_terdekat: the (position, score) pairs of
\* similarity_scores[:top_k], positions counted in kasus_list
ambil_kasus_terdekat(kasus, list, qs, top_k) ==
    IF list = <<>> THEN <<>>
    ELSE LET skor == [i \in 1..Len(list) |->
                         attribute_similarity(kasus, Val(list[i], qs))]
             urut == Slice(SortDesc(skor, Len(list)), top_k)
         IN [i \in 1..Len(urut) |-> [pos |-> urut[i], skor |-> skor[urut[i]]]]

NoSimilarCase == "Tidak ditemukan kasus serupa"

\* gunakan_solusi reading the last entry of the list instead of the first
gunakan_solusi_last(terambil, qs) ==
    IF terambil = <<>> THEN NoSimilarCase
    ELSE Val(terambil[Len(terambil)], qs).solusi

\* CBR.gunakan_solusi on a list of objects
gunakan_solusi(terambil, qs) ==
    IF terambil = <<>> THEN NoSimilarCase ELSE Val(terambil[1], qs).solusi

(* ------------------------------ inputs -------------------------------- *)
Parvo == "Parvovirus - Antibiotik + Perawatan pendukung"

\* contents of the durable file found at the first start
FileA == Json(<< ke_dict(Kasus("K1", "Dog", "Pug", 2, 5, "Healthy",
                                <<"Vomiting", "diarrhea">>, Parvo)),
                 ke_dict(Kasus("K2", "cat", "Persia", 4, 4, "Sick",
                                <<"diarrhea", "lethargy">>, "Rawat jalan")) >>)
FileNoKey ==
    Json(<< [key \in Keys \ {"solusi"} |->
                ke_dict(Kasus("K1", "Dog", "Pug", 2, 5, "Healthy",
                              <<"vomiting">>, Parvo))[key]] >>)
FileNumGejala ==
    Json(<< ke_dict(Kasus("K1", "Dog", "Pug", 2, 5, "Healthy",
                           <<"vomiting">>, Parvo)),
            ke_dict(Kasus("K2", "Cat", "Persia", 4, 4, "Sick",
                           <<NumElem>>, "Rawat jalan")) >>)

InitFiles == {Absent, Garbage, NotList, FileA, FileNoKey, FileNumGejala}

\* the environments: any of these files on a disk that works, and no file
\* or a well-formed one on a disk whose writes fail
Environments ==
    {<<f, "ok">> : f \in InitFiles}
        \cup {<<f, w>> : f \in {Absent, FileA}, w \in WriteOutcomes}

AllCols == {"AnimalName", "Breed", "Age", "Weight_kg", "MedicalHistory",
            "Symptom_1", "Symptom_2"}

Row(nama, ras, umur, berat, riwayat, s1, s2) ==
    [AnimalName |-> nama, Breed |-> ras, Age |-> umur, Weight_kg |-> berat,
     MedicalHistory |-> riwayat, Symptom_1 |-> s1, Symptom_2 |-> s2]

\* two rows that score alike against a query that differs from both only in
\* breed
DfDua == Df(AllCols,
            << Row("Dog", "Pug", Num(2), Num(5), "Healthy", " Vomiting ", "Diarrhea"),
               Row("Dog", "Beagle", Num(2), Num(5), "Healthy", "Diarrhea", "Vomiting") >>)
\* one row without any symptom
DfSatu == Df(AllCols,
             << Row("Cat", "Persia", Num(4), Num(4), "Sick", NaN, "  ") >>)
DfKosong == Df(AllCols, <<>>)
DfNoBreed == Df(AllCols \ {"Breed"},
                << [c \in AllCols \ {"Breed"} |->
                      Row("Dog", "Pug", Num(2), Num(5), "Healthy", "Vomiting", NaN)[c]] >>)
DfBadAge == Df(AllCols,
               << Row("Dog", "Pug", Num(2), Num(5), "Healthy", "Vomiting", NaN),
                  Row("Cat", "Persia", BadNum, Num(4), "Sick", "Fever", NaN) >>)

\* one row of a table with a sixth symptom column
DfEnam == Df(AllCols \cup {"Symptom_6"},
             << Row("Dog", "Pug", Num(2), Num(5), "Healthy", "Vomiting", NaN)
                    @@ ("Symptom_6" :> "Fever") >>)

CsvSources == {CsvMissing, CsvUnreadable, DfDua, DfSatu, DfKosong,
               DfNoBreed, DfBadAge, DfEnam}

\* the queries submitted: one as main() builds it, with trimmed lowercase
\* symptoms, and one as another caller of the engine may build it
QueryA == Kasus("BARU", "dog", "Tidak diketahui", 2, 5, "healthy",
                <<"vomiting", "diarrhea">>, "")
QueryB == Kasus("BARU", "Cat", "Persia", 4, 5, "Tidak ada",
                <<"Vomiting", "lethargy", "lethargy">>, "")

Queries == {QueryA, QueryB}

\* the query of a diagnosis in another session
QueryC == Kasus("BARU", "dog", "Beagle", 3, 9, "healthy", <<"coughing">>, "")

\* the values of top_k: a count of records
TopKs == 0..MaxK

(* ------------------------------ state --------------------------------- *)
\* file            content of the durable JSON file
\* kasus_list      BasisKasus.kasus_list
\* kasus_baru      the fields of the query object of the running diagnosis,
\*                 NoRec when none runs
\* kasus_terambil  the objects retrieve has returned for the reuse that
\*                 follows, with the position and score each had
\*                 (similarity_scores[:top_k]); <<>> once they are used
\* solusi          the value reuse has returned for the retain that may
\*                 follow; "" once another call was made
\* last            the last call: which, the exception it raised to its
\*                 caller, the st.error / st.warning / st.success it showed,
\*                 its argument (top_k of retrieve, the number of rows of
\*                 the data frame of import, else 0) and the length of
\*                 kasus_list when it was made
\* disk            how a write of the file ends in this environment: it
\*                 works, the file cannot be opened for writing, or the
\*                 write breaks off after the file was truncated
\* semua           the list a caller holds from dapatkan_semua_kasus():
\*                 none, the list object that is kasus_list, or a list
\*                 object the store has let go of, with its records
\* lain            a BasisKasus of another session on the same file: the
\*                 records of its kasus_list and the case it has retained
Call(op, raised, msg, arg, len0) ==
    [op |-> op, raised |-> raised, msg |-> msg, arg |-> arg, len0 |-> len0]

\* BasisKasus.__init__: an exception leaves no store object behind
Construct(f) ==
    LET r == muatan_kasus(f)
    IN [list |-> IF r.raised = "none" THEN r.list ELSE <<>>,
        raised |-> r.raised, msg |-> r.msg]

\* no list is held from dapatkan_semua_kasus()
NoSnap == [held |-> "none", now |-> <<>>]

\* self.kasus_list is bound to a new list object: a list held from
\* dapatkan_semua_kasus() is the old object and keeps its records
Detach(s) ==
    IF s.held = "alias"
    THEN [held |-> "detached", now |-> Vals(kasus_list, kasus_baru)]
    ELSE s

\* no other session has built a store
NoLain == [ada |-> FALSE, list |-> <<>>, baru |-> NoRec]

Init ==
    /\ \E e \in Environments : file = e[1] /\ disk = e[2]
    /\ kasus_list = Construct(file).list
    /\ last = Call("load", Construct(file).raised, Construct(file).msg, 0, 0)
    /\ kasus_baru = NoRec
    /\ kasus_terambil = <<>>
    /\ solusi = ""
    /\ semua = NoSnap
    /\ lain = NoLain

\* st.session_state holds a store: its constructor returned
StoreAda == ~(last.op = "load" /\ last.raised # "none")

\* a diagnosis is running: main() has built its query object
Berjalan == kasus_baru # NoRec

(* ----------------------------- actions -------------------------------- *)
\* kasus_terambil and solusi are locals of main(): retrieve's result is
\* read by the reuse that follows it, reuse's by the retain that follows it,
\* and by nothing else
Dropped ==
    /\ kasus_terambil' = <<>>
    /\ solusi' = ""

\* a command other than a diagnosis starts a new run of main(): the query
\* object of the last run is gone with its locals
RunEnds ==
    /\ kasus_baru' = NoRec
    /\ Dropped

\* main() builds the query object of a new diagnosis
KasusBaru(k) ==
    /\ StoreAda
    /\ kasus_baru' = k
    /\ kasus_list' = Freeze(kasus_list, kasus_baru)
    /\ Dropped
    /\ last' = Call("query", "none", "none", 0, Len(kasus_list))
    /\ UNCHANGED <<file, disk, semua, lain>>

\* BasisKasus.muatan_dari_csv(jalur_csv)
MuatanDariCsv(csv) ==
    /\ StoreAda
    /\ IF csv.kind # "df"
       THEN /\ last' = Call("import", "none", "error", 0, Len(kasus_list))
            /\ kasus_list' = Freeze(kasus_list, kasus_baru)
            /\ UNCHANGED file
       ELSE IF FirstBadRow(csv) # 0
       THEN /\ kasus_list' = csv_list(csv, Freeze(kasus_list, kasus_baru))
            /\ last' = Call("import",
                            row_raised(csv.cols, csv.rows[FirstBadRow(csv)]),
                            "none", Len(csv.rows), Len(kasus_list))
            /\ UNCHANGED file
       ELSE /\ kasus_list' = csv_list(csv, Freeze(kasus_list, kasus_baru))
            /\ file' = simpan_file(disk, kasus_list', kasus_baru, file)
            /\ last' = Call("import", simpan_raised(disk),
                            IF disk = "ok" THEN "success" ELSE "none",
                            Len(csv.rows), Len(kasus_list))
    /\ semua' = IF csv.kind = "df" THEN Detach(semua) ELSE semua
    /\ RunEnds
    /\ UNCHANGED <<disk, lain>>

\* CBR.simpan_kasus_baru(kasus_baru, solusi) with BasisKasus.tambah_kasus:
\* the query object itself is written to and appended
SimpanKasusBaru(sol) ==
    /\ StoreAda /\ Berjalan
    /\ Len(kasus_list) < MaxStore
    /\ kasus_baru' = [kasus_baru EXCEPT !.solusi = sol,
                                        !.id_kasus = KId(Len(kasus_list) + 1)]
    /\ kasus_list' = Append(kasus_list, RefBaru)
    /\ file' = simpan_file(disk, kasus_list', kasus_baru', file)
    /\ last' = Call("retain", simpan_raised(disk), "none", 0, Len(kasus_list))
    /\ Dropped
    /\ UNCHANGED <<disk, semua, lain>>

\* CBR.ambil_kasus_terdekat(kasus_baru, top_k)
AmbilKasusTerdekat(k) ==
    /\ StoreAda /\ Berjalan
    /\ LET r == ambil_kasus_terdekat(kasus_baru, kasus_list, kasus_baru, k)
       IN kasus_terambil' = [i \in 1..Len(r) |->
                                [obj |-> kasus_list[r[i].pos],
                                 pos |-> r[i].pos, skor |-> r[i].skor]]
    /\ last' = Call("retrieve", "none", "none", k, Len(kasus_list))
    /\ solusi' = ""
    /\ UNCHANGED <<file, kasus_list, kasus_baru, disk, semua, lain>>

\* a reuse that also writes the solution it returns into the query object
GunakanSolusi_writes ==
    /\ StoreAda /\ Berjalan /\ last.op = "retrieve"
    /\ solusi' = gunakan_solusi([i \in 1..Len(kasus_terambil) |->
                                    kasus_terambil[i].obj], kasus_baru)
    /\ kasus_baru' = [kasus_baru EXCEPT !.solusi = solusi']
    /\ last' = Call("reuse", "none", "none", 0, Len(kasus_list))
    /\ kasus_terambil' = <<>>
    /\ UNCHANGED <<file, kasus_list, disk, semua, lain>>

\* CBR.gunakan_solusi(kasus_terambil)
GunakanSolusi ==
    /\ StoreAda /\ Berjalan /\ last.op = "retrieve"
    /\ solusi' = gunakan_solusi([i \in 1..Len(kasus_terambil) |->
                                    kasus_terambil[i].obj], kasus_baru)
    /\ last' = Call("reuse", "none", "none", 0, Len(kasus_list))
    /\ kasus_terambil' = <<>>
    /\ UNCHANGED <<file, kasus_list, kasus_baru, disk, semua, lain>>

\* BasisKasus.simpan_kasus()
SimpanKasus ==
    /\ StoreAda
    /\ file' = simpan_file(disk, kasus_list, kasus_baru, file)
    /\ kasus_list' = Freeze(kasus_list, kasus_baru)
    /\ last' = Call("persist", simpan_raised(disk), "none", 0, Len(kasus_list))
    /\ RunEnds
    /\ UNCHANGED <<disk, semua, lain>>

\* a new session: main() builds BasisKasus() from the file
Restart ==
    /\ kasus_list' = Construct(file).list
    /\ last' = Call("load", Construct(file).raised, Construct(file).msg, 0, 0)
    /\ semua' = NoSnap
    /\ RunEnds
    /\ UNCHANGED <<file, disk, lain>>

\* BasisKasus.dapatkan_semua_kasus(): the caller is handed self.kasus_list,
\* the list object itself
DapatkanSemuaKasus ==
    /\ StoreAda
    /\ semua' = [held |-> "alias", now |-> <<>>]
    /\ last' = Call("all", "none", "none", 0, Len(kasus_list))
    /\ Dropped
    /\ UNCHANGED <<file, kasus_list, kasus_baru, disk, lain>>

\* the records a caller sees in the list it holds
View(s) ==
    IF s.held = "alias" THEN Vals(kasus_list, kasus_baru) ELSE s.now

\* the caller empties the list it holds (list.clear()): when that list is
\* self.kasus_list, the store is emptied
CallerClears ==
    /\ StoreAda /\ semua.held # "none"
    /\ View(semua) # <<>>
    /\ IF semua.held = "alias"
       THEN kasus_list' = <<>> /\ semua' = semua
       ELSE kasus_list' = kasus_list /\ semua' = [semua EXCEPT !.now = <<>>]
    /\ last' = Call("caller", "none", "none", 0, Len(kasus_list))
    /\ Dropped
    /\ UNCHANGED <<file, kasus_baru, disk, lain>>

\* another session starts: its main() builds a BasisKasus() of its own from
\* the same file
LainMuat ==
    /\ lain' = IF Construct(file).raised = "none"
               THEN [ada |-> TRUE,
                     list |-> Vals(Construct(file).list, NoRec),
                     baru |-> NoRec]
               ELSE NoLain
    /\ UNCHANGED <<file, kasus_list, kasus_baru, kasus_terambil, solusi,
                   last, disk, semua>>

\* the other session retains the query of its diagnosis:
\* CBR.simpan_kasus_baru with BasisKasus.tambah_kasus on its own store
LainSimpanKasusBaru(k, sol) ==
    /\ lain.ada /\ lain.baru = NoRec
    /\ Len(lain.list) < MaxStore
    /\ LET rec == [k EXCEPT !.solusi = sol,
                            !.id_kasus = KId(Len(lain.list) + 1)]
           list == Append(lain.list, rec)
       IN /\ lain' = [ada |-> TRUE, list |-> list, baru |-> rec]
          /\ file' = simpan_file(disk, [i \in 1..Len(list) |-> Own(list[i])],
                                 NoRec, file)
    /\ UNCHANGED <<kasus_list, kasus_baru, kasus_terambil, solusi, last,
                   disk, semua>>

\* the solution a caller passes to retain: the reused one right after a
\* diagnosis, as main() does, or one of its own
SolusiInputs == IF last.op = "reuse" THEN {solusi} ELSE {"Rawat inap"}

Next ==
    \/ \E k \in Queries : KasusBaru(k)
    \/ \E csv \in CsvSources : MuatanDariCsv(csv)
    \/ \E sol \in SolusiInputs : SimpanKasusBaru(sol)
    \/ \E k \in TopKs : AmbilKasusTerdekat(k)
    \/ GunakanSolusi
    \/ SimpanKasus
    \/ Restart

Spec == Init /\ [][Next]_vars

\* the store with a caller that keeps the list dapatkan_semua_kasus() has
\* handed it, over the operations that change the store, and empties it
NextSemua ==
    \/ \E k \in Queries : KasusBaru(k)
    \/ \E csv \in CsvSources : MuatanDariCsv(csv)
    \/ \E sol \in SolusiInputs : SimpanKasusBaru(sol)
    \/ Restart
    \/ DapatkanSemuaKasus
    \/ CallerClears

SpecSemua == Init /\ [][NextSemua]_vars

\* two sessions on one file, each with a store of its own, over the
\* operations that load the file and retain a case
NextDua ==
    \/ \E k \in Queries : KasusBaru(k)
    \/ \E sol \in SolusiInputs : SimpanKasusBaru(sol)
    \/ Restart
    \/ LainMuat
    \/ LainSimpanKasusBaru(QueryC, "Rawat jalan")

SpecDua == Init /\ [][NextDua]_vars

(* ------------------------------ claims -------------------------------- *)
\* a data frame all of whose rows can be turned into a Kasus
ValidSource(csv) == csv.kind = "df" /\ FirstBadRow(csv) = 0

\* the fields of the stored records before and after a step
Before == Vals(kasus_list, kasus_baru)
After == Vals(kasus_list', kasus_baru')

C2_FailedImportLeavesStore ==
    [][\A csv \in CsvSources :
          (last'.op = "import" /\ ~ValidSource(csv) /\ MuatanDariCsv(csv)) =>
              /\ After = Before
              /\ file' = file
              /\ last'.raised = "none"
              /\ last'.msg = "error"]_vars

\* C3 as stated: retain appends exactly one record: the store is one longer,
\* the appended record carries the given solution and the id K<old size + 1>,
\* no record already in the store has that id, and every earlier record is
\* unchanged.
C3_RetainAppendsOne ==
    [][\A sol \in SolusiInputs :
          (last'.op = "retain" /\ SimpanKasusBaru(sol)) =>
              /\ Len(After) = Len(Before) + 1
              /\ After[Len(After)].solusi = sol
              /\ After[Len(After)].id_kasus = "K" \o ToString(Len(Before) + 1)
              /\ \A i \in 1..Len(Before) :
                    /\ Before[i].id_kasus # After[Len(After)].id_kasus
                    /\ After[i] = Before[i]]_vars

\* C4 as stated: no two records of the store have the same id, whatever
\* loads, imports and retains led to it.
C4_UniqueIds ==
    \A i, j \in 1..Len(kasus_list) :
        i # j => Val(kasus_list[i], kasus_baru).id_kasus
                    # Val(kasus_list[j], kasus_baru).id_kasus

\* the composite score of the stored record at position p against the query
SkorAt(p) == attribute_similarity(kasus_baru, Val(kasus_list[p], kasus_baru))

\* the positions retrieve returned
PosTerambil == {kasus_terambil[i].pos : i \in 1..Len(kasus_terambil)}

\* C5: retrieve returns min(top_k, store size) records of the store, each a
\* different element of it, by non-increasing composite score, records of
\* equal score in store order, and no record left out scores higher than a
\* returned one; on an empty store it returns the empty sequence.
C5_RetrieveRanked ==
    last.op = "retrieve" =>
        /\ Len(kasus_terambil) = Min(last.arg, Len(kasus_list))
        /\ kasus_list = <<>> => kasus_terambil = <<>>
        /\ \A i \in 1..Len(kasus_terambil) :
              /\ kasus_terambil[i].pos \in 1..Len(kasus_list)
              /\ kasus_terambil[i].obj = kasus_list[kasus_terambil[i].pos]
              /\ kasus_terambil[i].skor = SkorAt(kasus_terambil[i].pos)
        /\ \A i, j \in 1..Len(kasus_terambil) :
              i < j =>
                  /\ kasus_terambil[i].pos # kasus_terambil[j].pos
                  /\ kasus_terambil[i].skor >= kasus_terambil[j].skor
                  /\ kasus_terambil[i].skor = kasus_terambil[j].skor
                        => kasus_terambil[i].pos < kasus_terambil[j].pos
        /\ \A p \in (1..Len(kasus_list)) \ PosTerambil :
              \A i \in 1..Len(kasus_terambil) :
                  /\ SkorAt(p) <= kasus_terambil[i].skor
                  /\ SkorAt(p) = kasus_terambil[i].skor
                        => kasus_terambil[i].pos < p

\* retrieve has returned two records of equal score in store order
C5_Witness ==
    /\ last.op = "retrieve"
    /\ Len(kasus_terambil) = 2
    /\ kasus_terambil[1].skor = kasus_terambil[2].skor
    /\ kasus_terambil[1].pos < kasus_terambil[2].pos

\* C6 as stated: persist never raises: when the write of the file fails in
\* persist, add (retain) or import, no exception reaches the caller, and the
\* records in memory stay as the call left them.
C6_PersistNeverRaises ==
    last.op \in {"persist", "retain", "import"} => last.raised # "OSError"

\* an item of the file that violates the record schema: a key is missing or
\* the symptom field is not a list of strings
SchemaViolation(item) ==
    \/ ~(Keys \subseteq DOMAIN item)
    \/ \E i \in 1..Len(item["gejala"]) : item["gejala"][i] = NumElem

\* C7 as stated: load never raises; an absent file gives an empty store and
\* no message; a file that cannot be parsed, or with an item that violates
\* the record schema, gives an empty store and a warning.
C7_LoadNeverRaises ==
    last.op = "load" =>
        /\ last.raised = "none"
        /\ file.kind = "absent" => kasus_list = <<>> /\ last.msg = "none"
        /\ (\/ file.kind \in {"garbage", "notlist"}
            \/ \E i \in 1..Len(file.data) : SchemaViolation(file.data[i]))
              => kasus_list = <<>> /\ last.msg = "warning"

\* a symptom token in normal form: lowercase and trimmed
Normalized(t) == Lower(t) = t /\ Strip(t) = t

\* a valid store state: unique ids, normalized symptom tokens, numbers >= 0
ValidStore(recs) ==
    /\ \A i, j \in 1..Len(recs) : i # j => recs[i].id_kasus # recs[j].id_kasus
    /\ \A i \in 1..Len(recs) :
          /\ \A t \in ToSet(recs[i].gejala) : Normalized(t)
          /\ recs[i].umur >= 0 /\ recs[i].berat >= 0

\* C8: when the durable file is the one persisted from a valid store state,
\* a store loaded from it holds the same records, field for field and in
\* the same order, and the load neither raises nor warns.
C8_RoundTrip ==
    (/\ StoreAda
     /\ ValidStore(Vals(kasus_list, kasus_baru))
     /\ last.op \in {"persist", "retain", "import"}
     /\ last.raised = "none" /\ last.msg # "error") =>
        /\ muatan_kasus(file).raised = "none"
        /\ muatan_kasus(file).msg = "none"
        /\ Vals(muatan_kasus(file).list, NoRec) = Vals(kasus_list, kasus_baru)

\* a valid store of two records, one of them retained, has been persisted
C8_Witness ==
    /\ last.op = "retain" /\ last.raised = "none"
    /\ Len(kasus_list) = 2
    /\ ValidStore(Vals(kasus_list, kasus_baru))
    /\ Vals(kasus_list, kasus_baru)[1].gejala # <<>>

\* the cases at hand: the stored records and the query of the running
\* diagnosis
Cases ==
    ToSet(Vals(kasus_list, kasus_baru))
        \cup (IF Berjalan THEN {kasus_baru} ELSE {})

\* C9 as stated: the composite score of any two cases lies in [0,1], and
\* the score of a case against itself is 1.0, also when it has no symptom.
C9_ScoreUnitSelfOne ==
    \A a, b \in Cases :
        /\ 0 <= attribute_similarity(a, b)
        /\ attribute_similarity(a, b) <= One
        /\ attribute_similarity(a, a) = One

\* C9 amended: the composite score of any two cases lies in [0,1]; the score
\* of a case against itself is 1.0 when it has at least one symptom and 0.6
\* when it has none.
C9_ScoreUnitSelf ==
    \A a, b \in Cases :
        /\ 0 <= attribute_similarity(a, b)
        /\ attribute_similarity(a, b) <= One
        /\ a.gejala # <<>> => attribute_similarity(a, a) = One
        /\ a.gejala = <<>> => 10 * attribute_similarity(a, a) = 6 * One

\* retrieve has scored the query against itself, retained in a store that
\* also holds a record without symptoms
C9_Witness ==
    /\ last.op = "retrieve"
    /\ \E i \in 1..Len(kasus_terambil) :
          kasus_terambil[i].obj = RefBaru /\ kasus_terambil[i].skor = One
    /\ \E c \in Cases : c.gejala = <<>>

\* the symptom lists at hand
GejalaLists == {c.gejala : c \in Cases}

\* C10: the symptom similarity of two lists is |a n b| / |a u b| of their
\* sets of tokens, and 0 when both are empty; it is symmetric, lies in
\* [0,1], is 1 for equal non-empty sets and 0 for disjoint sets; and
\* {vomiting, diarrhea} against {diarrhea, lethargy} gives 1/3.
C10_Jaccard ==
    /\ \A a, b \in GejalaLists :
          LET sa == ToSet(a)
              sb == ToSet(b)
              j == jaccard_similarity(a, b)
          IN /\ j * Cardinality(sa \cup sb) = Unit * Cardinality(sa \cap sb)
             /\ sa \cup sb = {} => j = 0
             /\ j = jaccard_similarity(b, a)
             /\ 0 <= j /\ j <= Unit
             /\ (sa = sb /\ sa # {}) => j = Unit
             /\ sa \cap sb = {} => j = 0
    /\ 3 * jaccard_similarity(<<"vomiting", "diarrhea">>, <<"diarrhea", "lethargy">>)
          = Unit

\* lists with a repeated token, without any token, and two that overlap in
\* part are at hand
C10_Witness ==
    /\ \E a \in GejalaLists : Len(a) > Cardinality(ToSet(a))
    /\ <<>> \in GejalaLists
    /\ \E a, b \in GejalaLists :
          /\ ToSet(a) \cap ToSet(b) # {}
          /\ ToSet(a) \ ToSet(b) # {}
          /\ ToSet(b) \ ToSet(a) # {}

\* C11: reuse returns the solution of the first entry of the list it is
\* given and the sentinel when the list is empty; after a retrieve with
\* top_k >= 1 on a store that is not empty, that is the solution of the
\* earliest record of the store among those of the highest composite score.
C11_ReuseFirst ==
    [][(last'.op = "reuse" /\ GunakanSolusi) =>
          /\ kasus_terambil = <<>> => solusi' = NoSimilarCase
          /\ kasus_terambil # <<>> =>
                solusi' = Val(kasus_terambil[1].obj, kasus_baru).solusi
          /\ (kasus_list # <<>> /\ last.arg >= 1) =>
                \E p \in 1..Len(kasus_list) :
                    /\ \A q \in 1..Len(kasus_list) : SkorAt(q) <= SkorAt(p)
                    /\ \A q \in 1..(p - 1) : SkorAt(q) < SkorAt(p)
                    /\ solusi' = Val(kasus_list[p], kasus_baru).solusi]_vars

\* reuse has returned the solution of the second of two stored records,
\* which scores higher than the first and carries another solution
C11_Witness ==
    /\ last.op = "reuse" /\ Berjalan
    /\ Len(kasus_list) = 2
    /\ SkorAt(2) > SkorAt(1)
    /\ solusi = Val(kasus_list[2], kasus_baru).solusi
    /\ solusi # Val(kasus_list[1], kasus_baru).solusi

\* the symptom tokens of the records of a list of mappings or of records
TokensOf(recs) == UNION {ToSet(recs[i]["gejala"]) : i \in 1..Len(recs)}

\* C12 as stated: in every state reached by load, import and retain, every
\* symptom token of every record of the store, and of every record the
\* program has written to the durable file, is lowercase and trimmed,
\* whatever tokens the loaded file or the retained query held; and the
\* normalization of load changes no token that is normalized already.
C12_TokensNormalized ==
    /\ \A t \in TokensOf(Vals(kasus_list, kasus_baru)) : Normalized(t)
    /\ (/\ last.op \in {"retain", "import", "persist"}
        /\ last.raised = "none" /\ last.msg # "error")
          => \A t \in TokensOf(file.data) : Normalized(t)
    /\ \A i \in 1..Len(kasus_list) :
          LET g == Val(kasus_list[i], kasus_baru).gejala
          IN (\A t \in ToSet(g) : Normalized(t)) => MapLower(g) = g

\* an add or an import has run to its end: it returned to its caller
\* without an exception and, for an import, without an error message
Completed(c) ==
    \/ c.op = "retain" /\ c.raised = "none"
    \/ c.op = "import" /\ c.raised = "none" /\ c.msg = "success"

\* C13: after every add and every import that has run to its end the
\* durable file is the encoding of the whole list of records in memory,
\* record for record; and a step that changes the records in memory is an
\* add (retain), an import or a load.
C13_FileMirrorsStore ==
    [][/\ Completed(last') =>
            /\ file' = Json([i \in 1..Len(After) |-> ke_dict(After[i])])
            /\ Len(file'.data) = Len(kasus_list')
       /\ After # Before => last'.op \in {"retain", "import", "load"}]_vars

\* an add has run to its end on a store of one record, and the file holds
\* both records
C13_Witness ==
    /\ Completed(last) /\ last.op = "retain" /\ last.len0 = 1
    /\ Len(kasus_list) = 2
    /\ file.kind = "json" /\ Len(file.data) = 2
    /\ file.data[2]["id_kasus"] = "K2"

\* C14 as stated: the list a caller has from dapatkan_semua_kasus() is a
\* snapshot: a later add, retain or import on the store does not change the
\* records the caller sees in it, and a change the caller makes to it does
\* not change the records of the store.
C14_AllIsSnapshot ==
    [][/\ (semua.held # "none" /\ last'.op \in {"retain", "import"})
            => View(semua)' = View(semua)
       /\ last'.op = "caller" => After = Before]_vars

\* the query object of the running diagnosis is an element of the store
Retained == Berjalan /\ RefBaru \in ToSet(kasus_list)

\* the state of the query of the running diagnosis: RETAINED once it is in
\* the store, else SOLVED after reuse, SCORED after retrieve, NEW before
Tahap ==
    CASE ~Berjalan -> "NONE"
      [] Retained -> "RETAINED"
      [] last.op = "reuse" -> "SOLVED"
      [] last.op = "retrieve" -> "SCORED"
      [] OTHER -> "NEW"

Rank(t) ==
    CASE t = "NEW" -> 1
      [] t = "SCORED" -> 2
      [] t = "SOLVED" -> 3
      [] t = "RETAINED" -> 4
      [] OTHER -> 0

\* C15 as stated: a query only moves forward through NEW, SCORED, SOLVED,
\* RETAINED: retain is applied only to a query that was retrieved and
\* reused, a retained query is not retained again and does not go back to
\* an earlier state, and the calls that process a query alter no record
\* retained earlier.
C15_ForwardOnly ==
    [][/\ last'.op = "retain" => Tahap = "SOLVED"
       /\ (Berjalan /\ last'.op \in {"retrieve", "reuse", "retain"})
            => Rank(Tahap') >= Rank(Tahap)
       /\ last'.op \in {"query", "retrieve", "reuse", "retain"}
            => \A i \in 1..Len(Before) : After[i] = Before[i]]_vars

\* C16: retrieve and reuse change nothing but their results: the list of
\* the store, the fields of every stored record, the id and the solution
\* of the query and the durable file are after the call what they were
\* before it, so the store does not grow without a call of retain.
C16_RetainNotAutomatic ==
    [][last'.op \in {"retrieve", "reuse"} =>
          /\ kasus_list' = kasus_list
          /\ After = Before
          /\ Len(kasus_list') = Len(kasus_list)
          /\ kasus_baru'.id_kasus = kasus_baru.id_kasus
          /\ kasus_baru'.solusi = kasus_baru.solusi
          /\ file' = file]_vars

\* reuse has returned the solution of a stored record for a query that is
\* still not retained: it keeps the id and the empty solution it was built
\* with, and store and file hold the two records they held
C16_Witness ==
    /\ last.op = "reuse" /\ Berjalan /\ ~Retained
    /\ solusi \notin {"", NoSimilarCase}
    /\ kasus_baru.id_kasus = "BARU" /\ kasus_baru.solusi = ""
    /\ Len(kasus_list) = 2
    /\ file.kind = "json" /\ Len(file.data) = 2

\* "Symptom" in c, for the column names that occur
HasSymptom(c) == c \in ToSet(SymptomCols) \cup {"Symptom_6"}

\* the lowercased trimmed values of the cells of a row that are not empty,
\* over the columns kols
CellTokens(row, kols) ==
    {Lower(Strip(row[c])) : c \in {k \in kols : row[k] # NaN /\ Strip(row[k]) # ""}}

Priority ==
    << [label |-> "Rabies - Antibiotik + Perawatan pendukung",
        tokens |-> {"hydrophobia", "shyness or aggression", "drooping ears"}],
       [label |-> "Kennel cough - Antibiotik + Perawatan pendukung",
        tokens |-> {"coughing", "sneezing", "lethargy"}],
       [label |-> "Parvovirus - Antibiotik + Perawatan pendukung",
        tokens |-> {"vomiting", "diarrhea", "lethargy", "weight loss"}],
       [label |-> "Feline leukemia - Antibiotik + Perawatan pendukung",
        tokens |-> {"weight loss", "anorexia", "fever"}],
       [label |-> "Skin infection - Antibiotik + Perawatan pendukung",
        tokens |-> {"itchiness", "hair loss", "redness"}],
       [label |-> "Parasites - Antibiotik + Perawatan pendukung",
        tokens |-> {"weight loss", "diarrhea", "scratching"}] >>

\* sol is the label of the first disease of the priority order that shares
\* a token with the symptoms g, and the fallback label exactly when none does
FirstOverlap(g, sol) ==
    LET hits(d) == Priority[d].tokens \cap ToSet(g) # {}
    IN /\ sol = "Diagnosa tidak diketahui" <=> \A d \in 1..Len(Priority) : ~hits(d)
       /\ \A d \in 1..Len(Priority) :
             (hits(d) /\ \A e \in 1..(d - 1) : ~hits(e)) => sol = Priority[d].label
       /\ \A d \in 1..Len(Priority) :
             sol = Priority[d].label
                 => hits(d) /\ \A e \in 1..(d - 1) : ~hits(e)

\* normalized symptom lists of rows, one for every disease and more
Gejalas ==
    {<<>>, <<"limping">>, <<"drooping ears">>, <<"lethargy">>,
     <<"sneezing", "fever">>, <<"weight loss">>, <<"fever", "scratching">>,
     <<"redness", "weight loss">>, <<"hair loss">>, <<"scratching">>,
     <<"diarrhea", "vomiting">>, <<"limping", "anorexia">>}

\* the label the row loop gives each of these lists
GejalasLabelled == \A g \in Gejalas : FirstOverlap(g, diagnosa(g))

\* C18: the solution of an imported row is the label of the first disease,
\* in the order rabies, kennel cough, parvovirus, feline leukemia, skin
\* infection, parasites, whose signature shares a token with the row's
\* normalized symptoms, and the fallback label exactly when no signature
\* does; a later disease is never chosen when an earlier one overlaps.
C18_FirstDiseaseWins ==
    [][\A csv \in CsvSources :
          (last'.op = "import" /\ csv.kind = "df" /\ MuatanDariCsv(csv)) =>
              /\ \A i \in 1..Len(After) :
                    FirstOverlap(After[i].gejala, After[i].solusi)
              /\ GejalasLabelled]_vars

\* an import has stored a row whose symptoms overlap the third and the
\* sixth disease, with the label of the third
C18_Witness ==
    /\ last.op = "import" /\ last.msg = "success"
    /\ Len(kasus_list) = 2
    /\ LET k == Val(kasus_list[1], kasus_baru)
       IN /\ ToSet(k.gejala) \cap Priority[3].tokens # {}
          /\ ToSet(k.gejala) \cap Priority[6].tokens # {}
          /\ k.solusi = Priority[3].label

\* the records of the first session's store
Mine == Vals(kasus_list, kasus_baru)

\* each of the two sessions has loaded the same records and has then
\* retained one case on top of them, and the writes work
BothRetained ==
    /\ disk = "ok"
    /\ Retained /\ lain.baru # NoRec
    /\ Len(Mine) = Len(lain.list)
    /\ kasus_list[Len(kasus_list)] = RefBaru
    /\ \A i \in 1..(Len(Mine) - 1) :
          kasus_list[i] # RefBaru /\ Mine[i] = lain.list[i]

\* the records of the file
FileRecs == {file.data[i] : i \in 1..Len(file.data)}

\* C19: when two sessions have each loaded the same file and each has then
\* retained a case, the file holds the list of the session that wrote
\* last: one of the two retained cases and not the other, and the two
\* retained cases carry the same id.
C19_LostUpdate ==
    BothRetained =>
        /\ file.kind = "json" /\ Len(file.data) = Len(Mine)
        /\ \/ ke_dict(kasus_baru) \in FileRecs /\ ke_dict(lain.baru) \notin FileRecs
           \/ ke_dict(kasus_baru) \notin FileRecs /\ ke_dict(lain.baru) \in FileRecs
        /\ kasus_baru.id_kasus = lain.baru.id_kasus

\* both sessions have loaded a file of one record and retained a case: the
\* file holds the other session's case as K2 and not the first session's,
\* which is K2 as well
C19_Witness ==
    /\ BothRetained /\ Len(Mine) = 2
    /\ file.kind = "json" /\ Len(file.data) = 2
    /\ file.data[2] = ke_dict(lain.baru)
    /\ ke_dict(kasus_baru) \notin FileRecs
    /\ kasus_baru.id_kasus = "K2" /\ lain.baru.id_kasus = "K2"

====
